---------------------------- MODULE Spec2Model ----------------------------
(***************************************************************************)
(* A model of shairport-sync-metadata-reader-rs: the binary frame decoder  *)
(* (MetadataParser), the line-oriented textual decoder (XmlMetadataParser),*)
(* the metadata classifier (ShairportMetadata::from_item) and the reader   *)
(* loops of MetadataReader / ShairportMetadataReader.                      *)
(*                                                                         *)
(* Bytes are integers 0..255.  A Rust Vec<u8> is a sequence of bytes and a *)
(* Rust String is the sequence of its UTF-8 bytes, so "core" is            *)
(* <<99, 111, 114, 101>>.  Option and Result values are records with a     *)
(* field tag: "None", "Some" (field v), "Err" (field e).                   *)
(***************************************************************************)
EXTENDS Integers, Sequences, FiniteSets, TLC

(***************************************************************************)
(* Bounds of the model.                                                    *)
(***************************************************************************)
\* Frames in one binary input stream.
MaxFrames == 2

\* Units (records) in one input text of the textual decoder.
MaxUnits == 2

\* Lines in one source of the textual decoder fed line by line.
MaxLines == 3

(***************************************************************************)
(* Sequences and bytes.                                                    *)
(***************************************************************************)
\* s[a+1 .. b] in 1-based TLA+ terms: the Rust slice s[a..b] (0-based, b excluded).
Slice(s, a, b) == SubSeq(s, a + 1, b)

RECURSIVE Concat(_)
Concat(ss) == IF ss = <<>> THEN <<>> ELSE Head(ss) \o Concat(Tail(ss))

\* Sequences over S of length 0..n.
SeqsUpTo(S, n) == UNION {[1..k -> S] : k \in 0..n}

\* Faulty variant: uppercase digits, 'A'..'F' being 65..70.
HexDigitUpper(n) == IF n < 10 THEN 48 + n ELSE 55 + n

\* format!("{:x}") of one hex digit 0..15: '0'..'9' are 48..57, 'a'..'f' 97..102.
HexDigit(n) == IF n < 10 THEN 48 + n ELSE 87 + n

\* format!("{:02x}", b) of one byte.
Hex2(b) == <<HexDigit(b \div 16), HexDigit(b % 16)>>

\* A UTF-8 continuation byte 0x80..0xBF.
IsCont(b) == b >= 128 /\ b <= 191

\* The length of the character a lead byte starts, 0 for a byte that starts none.
CharLen(b) ==
    IF b < 128 THEN 1
    ELSE IF b >= 194 /\ b <= 223 THEN 2
    ELSE IF b >= 224 /\ b <= 239 THEN 3
    ELSE IF b >= 240 /\ b <= 244 THEN 4
    ELSE 0

\* std::str::from_utf8(s).is_ok(): well-formed UTF-8 as Rust validates it (no
\* overlong forms, no surrogates, nothing above U+10FFFF).  Every lead byte
\* has its continuation bytes behind it, and every continuation byte belongs
\* to the lead byte at most three places before it.
Utf8Valid(s) ==
    \A i \in 1..Len(s) :
        LET b == s[i]
            n == CharLen(b)
        IN  IF b < 128 THEN TRUE
            ELSE IF IsCont(b)
            THEN \E k \in 1..3 :
                    /\ i - k >= 1
                    /\ CharLen(s[i - k]) > k
                    /\ \A j \in (i - k + 1)..(i - 1) : IsCont(s[j])
            ELSE /\ n >= 2
                 /\ i + n - 1 <= Len(s)
                 /\ \A j \in (i + 1)..(i + n - 1) : IsCont(s[j])
                 /\ (b = 224 => s[i + 1] >= 160)
                 /\ (b = 237 => s[i + 1] <= 159)
                 /\ (b = 240 => s[i + 1] >= 144)
                 /\ (b = 244 => s[i + 1] <= 143)

\* Faulty variant: the length read little-endian.
FromLeBytes(b) == ((b[4] * 256 + b[3]) * 256 + b[2]) * 256 + b[1]

\* u32::from_be_bytes of four bytes.
FromBeBytes(b) == ((b[1] * 256 + b[2]) * 256 + b[3]) * 256 + b[4]

\* u32::to_be_bytes.
ToBeBytes(n) ==
    <<(n \div 16777216) % 256, (n \div 65536) % 256, (n \div 256) % 256, n % 256>>

None == [tag |-> "None"]
Some(v) == [tag |-> "Some", v |-> v]
Err(e) == [tag |-> "Err", e |-> e]

(***************************************************************************)
(* MetadataParser: the binary frame decoder (parser.rs 8-94).              *)
(***************************************************************************)
MetadataItem(t, c, d) == [item_type |-> t, code |-> c, data |-> d]

\* MetadataParser::new
NewParser == [buffer |-> <<>>, position |-> 0]

\* Faulty variant: the chunk replaces the buffer.
FeedDataOverwrite(p, data) == [p EXCEPT !.buffer = data]

\* MetadataParser::feed_data
FeedData(p, data) == [p EXCEPT !.buffer = p.buffer \o data]

\* A 4-byte tag as a String: the bytes when they are UTF-8, else "0x" and the
\* bytes in lowercase hex.
TagString(b) ==
    IF Utf8Valid(b) THEN b
    ELSE <<48, 120>> \o Hex2(b[1]) \o Hex2(b[2]) \o Hex2(b[3]) \o Hex2(b[4])

\* Faulty variant: the cursor is moved back over the type and code only.
RollBackShort(pos) == pos - 8

\* Faulty variant: the cursor is left after the header.
RollBackNone(pos) == pos

\* Faulty variant: the roll-back is taken twice.
RollBackTwice(pos) == pos - 24

\* The cursor after a header whose payload is not buffered yet.
RollBack(pos) == pos - 12

\* Faulty variant: a payload is awaited unless a byte follows it.
PayloadMissingOrLast(avail, length) == avail <= length

\* if self.buffer.len() - self.position < length as usize
PayloadMissing(avail, length) == avail < length

\* MetadataParser::parse_next_item: [p |-> the parser after the call,
\* res |-> None or Some(item)].
ParseNextItem(p) ==
    IF Len(p.buffer) - p.position < 12
    THEN [p |-> p, res |-> None]
    ELSE LET pos0      == p.position
             item_type == TagString(Slice(p.buffer, pos0, pos0 + 4))
             pos1      == pos0 + 4
             code      == TagString(Slice(p.buffer, pos1, pos1 + 4))
             pos2      == pos1 + 4
             length    == FromBeBytes(Slice(p.buffer, pos2, pos2 + 4))
             pos3      == pos2 + 4
         IN  IF PayloadMissing(Len(p.buffer) - pos3, length)
             THEN [p |-> [p EXCEPT !.position = RollBack(pos3)], res |-> None]
             ELSE [p   |-> [p EXCEPT !.position = pos3 + length],
                   res |-> Some(MetadataItem(item_type, code,
                                             Slice(p.buffer, pos3, pos3 + length)))]

\* Faulty variant: the bytes are drained and the cursor is left where it was.
ClearKeepsPosition(p) ==
    IF p.position > 0
    THEN [buffer   |-> Slice(p.buffer, p.position, Len(p.buffer)),
          position |-> p.position]
    ELSE p

\* Faulty variant: the byte at the cursor is dropped with the processed ones.
ClearDropsOneMore(p) ==
    IF p.position > 0
    THEN [buffer   |-> Slice(p.buffer, p.position + 1, Len(p.buffer)),
          position |-> 0]
    ELSE p

\* MetadataParser::clear_processed
ClearProcessed(p) ==
    IF p.position > 0
    THEN [buffer   |-> Slice(p.buffer, p.position, Len(p.buffer)),
          position |-> 0]
    ELSE p

(***************************************************************************)
(* ShairportMetadata::from_item: the metadata classifier (metadata.rs).    *)
(***************************************************************************)
\* item.data.iter().map(|b| format!("{:02x}", b)).collect::<String>()
RECURSIVE HexString(_)
HexString(d) == IF d = <<>> THEN <<>> ELSE Hex2(Head(d)) \o HexString(Tail(d))

\* data_str: the payload as a String, or its bytes in lowercase hex when it is
\* not UTF-8.
DataStr(d) == IF d = <<>> THEN <<>> ELSE IF Utf8Valid(d) THEN d ELSE HexString(d)

\* The (type, code) pairs whose variant carries data_str, in match order.
StringTable ==
    {<<<<99, 111, 114, 101>>, <<109, 105, 110, 109>>, "Title">>,
     <<<<99, 111, 114, 101>>, <<97, 115, 97, 114>>, "Artist">>,
     <<<<99, 111, 114, 101>>, <<97, 115, 97, 108>>, "Album">>,
     <<<<99, 111, 114, 101>>, <<97, 115, 103, 110>>, "Genre">>,
     <<<<99, 111, 114, 101>>, <<97, 115, 121, 114>>, "Year">>,
     <<<<99, 111, 114, 101>>, <<97, 115, 99, 109>>, "Comment">>,
     <<<<99, 111, 114, 101>>, <<97, 115, 99, 111>>, "Composer">>,
     <<<<99, 111, 114, 101>>, <<97, 115, 99, 112>>, "Copyright">>,
     <<<<99, 111, 114, 101>>, <<97, 115, 116, 110>>, "TrackNumber">>,
     <<<<99, 111, 114, 101>>, <<97, 115, 116, 99>>, "TrackCount">>,
     <<<<99, 111, 114, 101>>, <<97, 115, 100, 110>>, "DiscNumber">>,
     <<<<99, 111, 114, 101>>, <<97, 115, 100, 99>>, "DiscCount">>,
     <<<<99, 111, 114, 101>>, <<97, 115, 100, 116>>, "TrackTime">>,
     <<<<99, 111, 114, 101>>, <<97, 115, 115, 114>>, "SampleRate">>,
     <<<<99, 111, 114, 101>>, <<109, 105, 105, 100>>, "ItemId">>,
     <<<<99, 111, 114, 101>>, <<109, 105, 107, 100>>, "MediaKind">>,
     <<<<99, 111, 114, 101>>, <<97, 115, 107, 121>>, "DataKind">>,
     <<<<99, 111, 114, 101>>, <<97, 115, 112, 108>>, "PersistentId">>,
     <<<<99, 111, 114, 101>>, <<97, 115, 115, 116>>, "SortTitle">>,
     <<<<99, 111, 114, 101>>, <<97, 115, 115, 97>>, "SortArtist">>,
     <<<<99, 111, 114, 101>>, <<97, 115, 115, 117>>, "SortAlbum">>,
     <<<<99, 111, 114, 101>>, <<97, 115, 115, 99>>, "SortComposer">>,
     <<<<99, 111, 114, 101>>, <<97, 115, 117, 114>>, "UserRating">>,
     <<<<99, 111, 114, 101>>, <<97, 115, 117, 108>>, "DataUrl">>,
     <<<<99, 111, 114, 101>>, <<97, 115, 100, 97>>, "DateAdded">>,
     <<<<99, 111, 114, 101>>, <<97, 115, 100, 109>>, "DateModified">>,
     <<<<99, 111, 114, 101>>, <<97, 115, 116, 109>>, "TimeStamp">>,
     <<<<99, 111, 114, 101>>, <<97, 115, 107, 100>>, "Kind">>,
     <<<<115, 115, 110, 99>>, <<112, 118, 111, 108>>, "PlayVolume">>,
     <<<<115, 115, 110, 99>>, <<115, 116, 97, 108>>, "StreamTitle">>,
     <<<<115, 115, 110, 99>>, <<115, 110, 97, 109>>, "StreamName">>,
     <<<<115, 115, 110, 99>>, <<115, 110, 117, 97>>, "UserAgent">>,
     <<<<115, 115, 110, 99>>, <<112, 114, 103, 114>>, "Progress">>,
     <<<<115, 115, 110, 99>>, <<109, 100, 115, 116>>, "MetadataStart">>,
     <<<<115, 115, 110, 99>>, <<109, 100, 101, 110>>, "MetadataEnd">>,
     <<<<99, 111, 114, 101>>, <<99, 97, 112, 115>>, "Capabilities">>}

\* The (type, code) pairs whose variant carries nothing.
SignalTable ==
    {<<<<115, 115, 110, 99>>, <<112, 98, 101, 103>>, "PlayBegin">>,
     <<<<115, 115, 110, 99>>, <<112, 101, 110, 100>>, "PlayEnd">>,
     <<<<115, 115, 110, 99>>, <<112, 102, 108, 115>>, "PlayFlush">>,
     <<<<115, 115, 110, 99>>, <<112, 114, 115, 109>>, "PlayResume">>,
     <<<<115, 115, 110, 99>>, <<97, 98, 101, 103>>, "ActiveBegin">>,
     <<<<115, 115, 110, 99>>, <<97, 101, 110, 100>>, "ActiveEnd">>}

\* "pict" and "PICT".
TagPictLower == <<112, 105, 99, 116>>
TagPictUpper == <<80, 73, 67, 84>>
TagSsnc == <<115, 115, 110, 99>>
TagCoreStr == <<99, 111, 114, 101>>
TagMper == <<109, 112, 101, 114>>

\* The variant a table gives (t, c), "" when the table has no such pair.
Lookup(table, t, c) ==
    IF \E e \in table : e[1] = t /\ e[2] = c
    THEN (CHOOSE e \in table : e[1] = t /\ e[2] = c)[3]
    ELSE ""

\* Faulty variant: the Picture arm without ("core", "PICT").
IsPictureLowerOnly(t, c) ==
    \/ t = TagSsnc /\ c = TagPictLower
    \/ t = TagPictLower

\* The Picture arm: ("ssnc", "pict") | ("pict", _) | ("core", "PICT").
IsPicture(t, c) ==
    \/ t = TagSsnc /\ c = TagPictLower
    \/ t = TagPictLower
    \/ t = TagCoreStr /\ c = TagPictUpper

\* Faulty variant: the fallback without the payload.
OtherWithoutData(item) ==
    [variant |-> "Other", item_type |-> item.item_type, code |-> item.code,
     data |-> <<>>]

\* _ => Self::Other { item_type, code, data }
OtherOf(item) ==
    [variant |-> "Other", item_type |-> item.item_type, code |-> item.code,
     data |-> item.data]

\* ShairportMetadata::from_item.  The arms of the match are tried in order; no
\* two of them match the same pair, so the tables are looked up one by one.
FromItem(item) ==
    LET t == item.item_type
        c == item.code
    IN  IF Lookup(StringTable, t, c) # ""
        THEN [variant |-> Lookup(StringTable, t, c), s |-> DataStr(item.data)]
        ELSE IF Lookup(SignalTable, t, c) # ""
        THEN [variant |-> Lookup(SignalTable, t, c)]
        ELSE IF t = TagCoreStr /\ c = TagMper
        THEN [variant |-> "MediaPlayer", data |-> item.data]
        ELSE IF IsPicture(t, c)
        THEN [variant |-> "Picture", data |-> item.data]
        ELSE OtherOf(item)

(***************************************************************************)
(* Strings: str::trim, str::find, and the base64 and number conversions.   *)
(***************************************************************************)
\* The White_Space characters str::trim removes, as their UTF-8 bytes: the
\* ASCII ones (tab, LF, VT, FF, CR, space), U+0085, U+00A0, U+1680,
\* U+2000..U+200A, U+2028, U+2029, U+202F, U+205F, U+3000.
WhiteSpace ==
    {<<9>>, <<10>>, <<11>>, <<12>>, <<13>>, <<32>>, <<194, 133>>, <<194, 160>>,
     <<225, 154, 128>>, <<226, 128, 168>>, <<226, 128, 169>>, <<226, 128, 175>>,
     <<226, 129, 159>>, <<227, 128, 128>>}
        \cup {<<226, 128, b>> : b \in 128..138}

\* s starts with pre.
StartsWith(s, pre) == Len(s) >= Len(pre) /\ SubSeq(s, 1, Len(pre)) = pre

\* s ends with suf.
EndsWith(s, suf) ==
    Len(s) >= Len(suf) /\ SubSeq(s, Len(s) - Len(suf) + 1, Len(s)) = suf

RECURSIVE TrimStart(_)
TrimStart(s) ==
    IF \E w \in WhiteSpace : StartsWith(s, w)
    THEN TrimStart(SubSeq(s, Len(CHOOSE w \in WhiteSpace : StartsWith(s, w)) + 1, Len(s)))
    ELSE s

RECURSIVE TrimEnd(_)
TrimEnd(s) ==
    IF \E w \in WhiteSpace : EndsWith(s, w)
    THEN TrimEnd(SubSeq(s, 1, Len(s) - Len(CHOOSE w \in WhiteSpace : EndsWith(s, w))))
    ELSE s

\* str::trim
Trim(s) == TrimEnd(TrimStart(s))

\* str::find(pat) from byte offset i on: the 0-based offset of the first
\* occurrence at or after i, -1 when there is none.
FindFrom(s, pat, i) ==
    LET hits == {j \in i..(Len(s) - Len(pat)) :
                    s[j + 1] = pat[1] /\ SubSeq(s, j + 1, j + Len(pat)) = pat}
    IN  IF hits = {} THEN -1 ELSE CHOOSE j \in hits : \A k \in hits : j <= k

\* str::find
Find(s, pat) == FindFrom(s, pat, 0)

\* The value of a base64 symbol of the standard alphabet, -1 for any other byte.
B64Value(c) ==
    IF c >= 65 /\ c <= 90 THEN c - 65
    ELSE IF c >= 97 /\ c <= 122 THEN c - 71
    ELSE IF c >= 48 /\ c <= 57 THEN c + 4
    ELSE IF c = 43 THEN 62
    ELSE IF c = 47 THEN 63
    ELSE -1

\* The bytes of whole 4-symbol groups.
RECURSIVE B64Quads(_)
B64Quads(v) ==
    IF Len(v) < 4 THEN <<>>
    ELSE <<v[1] * 4 + v[2] \div 16,
           (v[2] % 16) * 16 + v[3] \div 4,
           (v[3] % 4) * 64 + v[4]>> \o B64Quads(SubSeq(v, 5, Len(v)))

\* general_purpose::STANDARD.decode: Some(bytes), or None for an error.  The
\* standard alphabet, canonical '=' padding required, no non-zero trailing
\* bits.
Base64Decode(s) ==
    LET n    == Len(s)
        pad  == IF n >= 1 /\ s[n] = 61
                THEN (IF n >= 2 /\ s[n - 1] = 61 THEN 2 ELSE 1)
                ELSE 0
        body == SubSeq(s, 1, n - pad)
        v    == [i \in 1..Len(body) |-> B64Value(body[i])]
        m    == Len(body) % 4
        last == SubSeq(v, Len(v) - m + 1, Len(v))
    IN  IF \E i \in 1..Len(v) : v[i] = -1 THEN None
        ELSE IF n % 4 # 0 \/ m = 1 THEN None
        ELSE IF m = 2 /\ last[2] % 16 # 0 THEN None
        ELSE IF m = 3 /\ last[3] % 4 # 0 THEN None
        ELSE Some(B64Quads(v)
                  \o (IF m = 2 THEN <<last[1] * 4 + last[2] \div 16>>
                      ELSE IF m = 3
                      THEN <<last[1] * 4 + last[2] \div 16,
                             (last[2] % 16) * 16 + last[3] \div 4>>
                      ELSE <<>>))

\* [0-9a-fA-F]
IsHex(c) == (c >= 48 /\ c <= 57) \/ (c >= 97 /\ c <= 102) \/ (c >= 65 /\ c <= 70)

\* The value of a hex digit.
HexValue(c) == IF c <= 57 THEN c - 48 ELSE IF c >= 97 THEN c - 87 ELSE c - 55

IsAsciiDigit(c) == c >= 48 /\ c <= 57

\* s without its leading '0's.
RECURSIVE StripZeros(_)
StripZeros(s) == IF s # <<>> /\ s[1] = 48 THEN StripZeros(Tail(s)) ELSE s

\* u32::from_str_radix(hex, 16) followed by to_be_bytes: Some(the four bytes),
\* or None when the value does not fit 32 bits.  hex is a non-empty run of hex
\* digits.
HexToU32(hex) ==
    LET sig == StripZeros(hex)
        h   == [i \in 1..(8 - Len(sig)) |-> 48] \o sig
    IN  IF Len(sig) > 8 THEN None
        ELSE Some([i \in 1..4 |-> HexValue(h[2 * i - 1]) * 16 + HexValue(h[2 * i])])

\* u64::MAX in decimal: 18446744073709551615.
UsizeMaxDigits == <<49, 56, 52, 52, 54, 55, 52, 52, 48, 55, 51, 55, 48, 57, 53, 53, 49, 54, 49, 53>>

\* a <= b for digit strings of the same length.
RECURSIVE DigitsLeq(_, _)
DigitsLeq(a, b) ==
    IF a = <<>> THEN TRUE
    ELSE IF a[1] # b[1] THEN a[1] < b[1]
    ELSE DigitsLeq(Tail(a), Tail(b))

\* The value of a string of at most nine ASCII digits.
RECURSIVE DecimalValue(_)
DecimalValue(d) ==
    IF d = <<>> THEN 0 ELSE DecimalValue(SubSeq(d, 1, Len(d) - 1)) * 10 + (d[Len(d)] - 48)

\* str::parse::<usize>() of a run of decimal digits: Some(n), or None for an
\* error (a digit that is not ASCII, or a value above usize::MAX, 64 bits).
\* The code uses the value only in "length > 0", so a value of more than nine
\* digits is given as 10^9.
ParseUsize(d) ==
    LET sig == StripZeros(d)
    IN  IF \E i \in 1..Len(d) : ~IsAsciiDigit(d[i]) THEN None
        ELSE IF Len(sig) > 20 THEN None
        ELSE IF Len(sig) = 20 /\ ~DigitsLeq(sig, UsizeMaxDigits) THEN None
        ELSE IF Len(sig) > 9 THEN Some(1000000000)
        ELSE Some(DecimalValue(sig))

(***************************************************************************)
(* XmlMetadataParser: the line-oriented textual decoder (parser.rs 103-203)*)
(***************************************************************************)
\* The literal parts of the header pattern
\* <item><type>([0-9a-fA-F]+)</type><code>([0-9a-fA-F]+)</code><length>(\d+)</length>
PatItemType == <<60, 105, 116, 101, 109, 62, 60, 116, 121, 112, 101, 62>>
PatTypeCode == <<60, 47, 116, 121, 112, 101, 62, 60, 99, 111, 100, 101, 62>>
PatCodeLength == <<60, 47, 99, 111, 100, 101, 62, 60, 108, 101, 110, 103, 116, 104, 62>>
PatLengthEnd == <<60, 47, 108, 101, 110, 103, 116, 104, 62>>

\* <data encoding="base64">
DataOpen == <<60, 100, 97, 116, 97, 32, 101, 110, 99, 111, 100, 105, 110, 103, 61, 34, 98, 97, 115, 101, 54, 52, 34, 62>>

\* </data>
DataClose == <<60, 47, 100, 97, 116, 97, 62>>

\* The clear_processed threshold on the partial-line buffer, in bytes.
XmlBufferLimit == 10000

\* pat occurs in s at 0-based offset i.
At(s, i, pat) == i + Len(pat) <= Len(s) /\ SubSeq(s, i + 1, i + Len(pat)) = pat

\* The offset after the longest run of hex digits of s that starts at offset i.
RECURSIVE HexRunEnd(_, _)
HexRunEnd(s, i) == IF i < Len(s) /\ IsHex(s[i + 1]) THEN HexRunEnd(s, i + 1) ELSE i

\* The offset after the longest run of \d of s that starts at offset i.  \d is
\* any Unicode decimal digit; of those the model has the ASCII digits and the
\* Arabic-Indic digits U+0660..U+0669 (0xD9 0xA0..0xA9).
RECURSIVE DigitRunEnd(_, _)
DigitRunEnd(s, i) ==
    IF i < Len(s) /\ IsAsciiDigit(s[i + 1]) THEN DigitRunEnd(s, i + 1)
    ELSE IF i + 1 < Len(s) /\ s[i + 1] = 217 /\ s[i + 2] >= 160 /\ s[i + 2] <= 169
         THEN DigitRunEnd(s, i + 2)
    ELSE i

\* The header pattern matched at offset i of line: Some(<<type hex, code hex,
\* length digits>>) or None.  Each run is followed by '<', which is in neither
\* class, so only the longest run can match.
MatchAt(line, i) ==
    LET t0 == i + Len(PatItemType)
        t1 == HexRunEnd(line, t0)
        c0 == t1 + Len(PatTypeCode)
        c1 == HexRunEnd(line, c0)
        l0 == c1 + Len(PatCodeLength)
        l1 == DigitRunEnd(line, l0)
    IN  IF /\ At(line, i, PatItemType)
           /\ t1 > t0
           /\ At(line, t1, PatTypeCode)
           /\ c1 > c0
           /\ At(line, c1, PatCodeLength)
           /\ l1 > l0
           /\ At(line, l1, PatLengthEnd)
        THEN Some(<<Slice(line, t0, t1), Slice(line, c0, c1), Slice(line, l0, l1)>>)
        ELSE None

\* Regex::captures(&line): the leftmost match anywhere in the line.
RECURSIVE CapturesFrom(_, _)
CapturesFrom(line, i) ==
    LET j == FindFrom(line, PatItemType, i)
    IN  IF j < 0 THEN None
        ELSE IF MatchAt(line, j) # None THEN MatchAt(line, j)
        ELSE CapturesFrom(line, j + 1)

Captures(line) == CapturesFrom(line, 0)

\* A tag number as a String: its four big-endian bytes when they are UTF-8,
\* else format!("0x{:08x}").
U32TagString(b) ==
    IF Utf8Valid(b) THEN b
    ELSE <<48, 120>> \o Hex2(b[1]) \o Hex2(b[2]) \o Hex2(b[3]) \o Hex2(b[4])

\* XmlMetadataParser::new
NewXmlParser == [buffer |-> <<>>, pending_lines |-> <<>>]

\* Faulty variant: what is left without a newline is queued as a line too.
RECURSIVE SplitLinesFlush(_)
SplitLinesFlush(x) ==
    LET newline_pos == Find(x.buffer, <<10>>)
        line        == Slice(x.buffer, 0, newline_pos)
        rest        == Slice(x.buffer, newline_pos + 1, Len(x.buffer))
    IN  IF newline_pos < 0
        THEN IF Trim(x.buffer) # <<>>
             THEN [buffer |-> <<>>, pending_lines |-> Append(x.pending_lines, x.buffer)]
             ELSE x
        ELSE SplitLinesFlush([buffer        |-> rest,
                              pending_lines |-> IF Trim(line) # <<>>
                                                THEN Append(x.pending_lines, line)
                                                ELSE x.pending_lines])

\* The while loop of feed_data: every complete line leaves the buffer and is
\* queued unless it is blank.
RECURSIVE SplitLines(_)
SplitLines(x) ==
    LET newline_pos == Find(x.buffer, <<10>>)
        line        == Slice(x.buffer, 0, newline_pos)
        rest        == Slice(x.buffer, newline_pos + 1, Len(x.buffer))
    IN  IF newline_pos < 0 THEN x
        ELSE SplitLines([buffer        |-> rest,
                         pending_lines |-> IF Trim(line) # <<>>
                                           THEN Append(x.pending_lines, line)
                                           ELSE x.pending_lines])

\* Faulty variant: the partial line buffered by earlier calls is overwritten.
XmlFeedDataNoCarry(x, data) ==
    IF Utf8Valid(data)
    THEN SplitLines([x EXCEPT !.buffer = data])
    ELSE x

\* XmlMetadataParser::feed_data
XmlFeedData(x, data) ==
    IF Utf8Valid(data)
    THEN SplitLines([x EXCEPT !.buffer = x.buffer \o data])
    ELSE x

\* The payload of a length > 0 header whose data-open line matched: the base64
\* text before </data> decoded, empty when there is no </data> or the text
\* does not decode.
PayloadOf(base64_line) ==
    LET end_pos == Find(base64_line, DataClose)
        decoded == Base64Decode(Trim(Slice(base64_line, 0, end_pos)))
    IN  IF end_pos < 0 \/ decoded = None THEN <<>> ELSE decoded.v

\* Faulty variant: the header line is not put back.
PushFrontLost(q, line) == q

\* Faulty variant: the header line is put back at the back of the queue.
PushFrontAtBack(q, line) == q \o <<line>>

\* VecDeque::push_front
PushFront(q, line) == <<line>> \o q

\* Lines that must be queued behind a length > 0 header before it is decoded.
LinesNeeded == 2

\* Faulty variant: the line behind a data-start line that is not the marker
\* is popped with it.
MarkerMismatchSwallow(queue) == SubSeq(queue, 3, Len(queue))

\* Faulty variant: a data-start line that is not the marker is left queued.
MarkerMismatchKeeps(queue) == queue

\* The queue behind a length > 0 header after its data-start line was popped
\* and did not trim to the marker: nothing else is popped.
MarkerMismatch(queue) == Tail(queue)

\* XmlMetadataParser::parse_next_metadata: [p |-> the parser after the call,
\* res |-> None, Some(event) or Err("InvalidFormat")], and for an event the
\* Record it was classified from (item) and the length its header declared.
RECURSIVE XmlParseNext(_)
XmlParseNext(x) ==
    IF x.pending_lines = <<>> THEN [p |-> x, res |-> None]
    ELSE
    LET line     == Head(x.pending_lines)
        popped   == [x EXCEPT !.pending_lines = Tail(x.pending_lines)]
        captures == Captures(line)
    IN  IF captures = None THEN XmlParseNext(popped)
        ELSE
        LET length   == ParseUsize(captures.v[3])
            type_num == HexToU32(captures.v[1])
            code_num == HexToU32(captures.v[2])
        IN  IF length = None \/ type_num = None \/ code_num = None
            THEN [p |-> popped, res |-> Err("InvalidFormat")]
            ELSE
            LET item_type == U32TagString(type_num.v)
                code      == U32TagString(code_num.v)
                queue     == popped.pending_lines
                emit(data, left) ==
                    [p      |-> [popped EXCEPT !.pending_lines = left],
                     res    |-> Some(FromItem(MetadataItem(item_type, code, data))),
                     item   |-> MetadataItem(item_type, code, data),
                     length |-> length.v]
            IN  IF length.v > 0
                THEN IF Len(queue) < LinesNeeded
                     THEN [p   |-> [popped EXCEPT !.pending_lines = PushFront(queue, line)],
                           res |-> None]
                     ELSE IF Trim(queue[1]) = DataOpen
                     THEN emit(PayloadOf(queue[2]), SubSeq(queue, 3, Len(queue)))
                     ELSE emit(<<>>, MarkerMismatch(queue))
                ELSE emit(<<>>, queue)

\* XmlMetadataParser::clear_processed
XmlClearProcessed(x) ==
    IF Len(x.buffer) > XmlBufferLimit THEN [x EXCEPT !.buffer = <<>>] ELSE x

(***************************************************************************)
(* The binary wire format and the input streams of the decoder.            *)
(***************************************************************************)
\* "core", "minm", and a tag that is not UTF-8.
TagCore == <<99, 111, 114, 101>>
TagMinm == <<109, 105, 110, 109>>
TagRaw  == <<255, 0, 112, 105>>

\* type | code | length (4 bytes, big-endian) | payload
Encode(f) == f.type \o f.code \o ToBeBytes(Len(f.payload)) \o f.payload

Payloads == {<<>>, <<83>>, <<111, 255>>}

Frames ==
    {[type |-> t[1], code |-> t[2], payload |-> d] :
        t \in {<<TagCore, TagMinm>>, <<TagRaw, TagCore>>}, d \in Payloads}

\* The streams: up to MaxFrames frames, back to back.
Streams == SeqsUpTo(Frames, MaxFrames)

Wire(fs) == Concat([i \in 1..Len(fs) |-> Encode(fs[i])])

\* The Record a frame carries.
RecordOf(f) == MetadataItem(TagString(f.type), TagString(f.code), f.payload)

\* The offset in the stream at which frame i ends.
FrameEnd(fs, i) == Len(Wire(SubSeq(fs, 1, i)))

\* Draining a parser: parse_next_item until it returns None.
RECURSIVE Drain(_)
Drain(p) ==
    LET r == ParseNextItem(p)
    IN  IF r.res = None THEN <<>> ELSE <<r.res.v>> \o Drain(r.p)

\* The Records of one feed_data of the whole of bytes, drained once.
OneShot(bytes) == Drain(FeedData(NewParser, bytes))

(***************************************************************************)
(* The textual wire format and the input texts of the textual decoder.     *)
(***************************************************************************)
\* A record of length 0, ssnc/pbeg, on its one line:
\* <item><type>73736e63</type><code>70626567</code><length>0</length></item>
LineZero ==
    <<60, 105, 116, 101, 109, 62, 60, 116, 121, 112, 101, 62, 55, 51, 55,
    51, 54, 101, 54, 51, 60, 47, 116, 121, 112, 101, 62, 60, 99, 111, 100,
    101, 62, 55, 48, 54, 50, 54, 53, 54, 55, 60, 47, 99, 111, 100, 101, 62,
    60, 108, 101, 110, 103, 116, 104, 62, 48, 60, 47, 108, 101, 110, 103,
    116, 104, 62, 60, 47, 105, 116, 101, 109, 62>>

\* The header of a core/minm record of length 2:
\* <item><type>636f7265</type><code>6d696e6d</code><length>2</length>
LineHeader2 ==
    <<60, 105, 116, 101, 109, 62, 60, 116, 121, 112, 101, 62, 54, 51, 54,
    102, 55, 50, 54, 53, 60, 47, 116, 121, 112, 101, 62, 60, 99, 111, 100,
    101, 62, 54, 100, 54, 57, 54, 101, 54, 100, 60, 47, 99, 111, 100, 101,
    62, 60, 108, 101, 110, 103, 116, 104, 62, 50, 60, 47, 108, 101, 110,
    103, 116, 104, 62>>

\* The header of a core/minm record of length 4:
\* <item><type>636f7265</type><code>6d696e6d</code><length>4</length>
LineHeader4 ==
    <<60, 105, 116, 101, 109, 62, 60, 116, 121, 112, 101, 62, 54, 51, 54,
    102, 55, 50, 54, 53, 60, 47, 116, 121, 112, 101, 62, 60, 99, 111, 100,
    101, 62, 54, 100, 54, 57, 54, 101, 54, 100, 60, 47, 99, 111, 100, 101,
    62, 60, 108, 101, 110, 103, 116, 104, 62, 52, 60, 47, 108, 101, 110,
    103, 116, 104, 62>>

\* The payload "So" in base64, closed: U28=</data></item>
LineSo ==
    <<85, 50, 56, 61, 60, 47, 100, 97, 116, 97, 62, 60, 47, 105, 116, 101,
    109, 62>>

\* The lines of a text, each ended by a newline.
TextOf(lines) == Concat([i \in 1..Len(lines) |-> lines[i] \o <<10>>])

\* A record of length 0; a record of length 2 with its two payload bytes; a
\* record that declares 4 bytes and carries 2.
UnitZero == <<LineZero>>
UnitData == <<LineHeader2, DataOpen, LineSo>>
UnitShort == <<LineHeader4, DataOpen, LineSo>>

\* The units of the textual framing as shairport-sync writes it: the declared
\* length is the payload's.
ValidUnits == {UnitZero, UnitData}

\* The valid texts: up to MaxUnits units, one after the other.
ValidTexts == {TextOf(Concat(us)) : us \in SeqsUpTo(ValidUnits, MaxUnits)}

\* while let Some(metadata) = xml_parser.parse_next_metadata()? { .. }: the
\* decoder drained.  [p |-> the parser after the loop, events |-> the events
\* returned, in order, err |-> the loop was left by an error].
\* One run of the loop: s is the loop so far, r what parse_next_metadata
\* returned.
XmlDrainStep(s, r) ==
    IF s.left THEN s
    ELSE IF r.res = None THEN [s EXCEPT !.p = r.p, !.left = TRUE]
    ELSE IF r.res.tag = "Err" THEN [s EXCEPT !.p = r.p, !.err = TRUE, !.left = TRUE]
    ELSE [s EXCEPT !.p = r.p, !.events = Append(@, r.res.v)]

XmlDrainEnd(s) == [p |-> s.p, events |-> s.events, err |-> s.err]

XmlDrain(x) ==
    LET n == Len(x.pending_lines) + 1
        \* Every Some takes at least one queued line, so the loop body runs at
        \* most n times; at[k] is the loop after k runs of its body.
        at[k \in 0..n] ==
            IF k = 0 THEN [p |-> x, events |-> <<>>, err |-> FALSE, left |-> FALSE]
            ELSE XmlDrainStep(at[k - 1], XmlParseNext(at[k - 1].p))
    IN  XmlDrainEnd(at[n])

\* The events of one feed_data of the whole of bytes, drained once.
XmlOneShot(bytes) == XmlDrain(XmlFeedData(NewXmlParser, bytes)).events

\* A header whose type has nine hex digits, more than 32 bits:
\* <item><type>1636f7265</type><code>70626567</code><length>0</length></item>
LineOverflow ==
    <<60, 105, 116, 101, 109, 62, 60, 116, 121, 112, 101, 62, 49, 54, 51,
    54, 102, 55, 50, 54, 53, 60, 47, 116, 121, 112, 101, 62, 60, 99, 111,
    100, 101, 62, 55, 48, 54, 50, 54, 53, 54, 55, 60, 47, 99, 111, 100, 101,
    62, 60, 108, 101, 110, 103, 116, 104, 62, 48, 60, 47, 108, 101, 110,
    103, 116, 104, 62, 60, 47, 105, 116, 101, 109, 62>>

\* The lines a source is made of, and the sources: up to MaxLines lines, each
\* ended by a newline.
Lines == {LineZero, LineHeader2, LineHeader4, DataOpen, LineSo, LineOverflow}
LineTexts == {TextOf(ls) : ls \in SeqsUpTo(Lines, MaxLines)}

\* The offset after the next newline of t at or after offset i (the end of t
\* when there is none): where read_line stops.
LineEnd(t, i) ==
    IF FindFrom(t, <<10>>, i) < 0 THEN Len(t) ELSE FindFrom(t, <<10>>, i) + 1

(***************************************************************************)
(* State.                                                                  *)
(***************************************************************************)
VARIABLES
    frames,     \* binary decoder: the frames of the input stream
    parser,     \* binary decoder: the MetadataParser
    items,      \* binary decoder: the Records parse_next_item has returned
    text,       \* textual decoder: the input text
    xml,        \* textual decoder: the XmlMetadataParser
    out,        \* textual decoder: what parse_next_metadata has returned, each
                \* event with its Record and the length its header declared
    fed,        \* either decoder: bytes of the input fed so far
    op,         \* either decoder: the last operation called
    ret,        \* either decoder: what the last parse call returned
    split,      \* either decoder: a feed_data chunk has ended inside a frame
                \* (binary) or inside a line (textual)
    entry,      \* reader: the function running, "read_from_file",
                \* "read_from_named_pipe", "read_from_stdin",
                \* "read_metadata_once", "start_continuous_reading" or
                \* "start_continuous_reading_from_file"
    pc,         \* reader: where the function is: "open", "loop" (at
                \* read_line), "drain" (in the while let loop), "done"
    result,     \* reader: what the function returned, None while it runs
    metadata_items, \* one-shot reader: the events collected
    lastRead,   \* reader: how the last read_line ended: "Line", "Eof",
                \* "WouldBlock", "Error", or "Elapsed" for the timeout
    eofAt,      \* reader: the offset in the source of the last zero-length
                \* read, -1 before any
    chan,       \* channel: the events queued
    rxAlive,    \* channel: the receiver has not been dropped
    lastSend,   \* channel: how the last tx.send ended: "ok" or "closed"
    emitted,    \* continuous reader: the events its decoder has returned
    received,   \* consumer: the events rx.recv has returned
    cons        \* consumer: "recv" (in its receive loop), "ended" (recv
                \* returned None), "cancelled" (ctrl_c won the select)

binVars == <<frames, parser, items>>
xmlVars == <<text, xml, out>>
drvVars == <<fed, op, ret, split>>
rdVars == <<entry, pc, result, metadata_items, lastRead, eofAt>>
chVars == <<chan, rxAlive, lastSend, emitted, received, cons>>

vars == <<binVars, xmlVars, drvVars, rdVars, chVars>>

\* The decoders before any use.
BinIdle == frames = <<>> /\ parser = NewParser /\ items = <<>>
XmlIdle == text = <<>> /\ xml = NewXmlParser /\ out = <<>>
DrvInit == fed = 0 /\ op = "new" /\ ret = None /\ split = FALSE
RdIdle ==
    /\ entry = ""
    /\ pc = ""
    /\ result = None
    /\ metadata_items = <<>>
    /\ lastRead = ""
    /\ eofAt = -1
ChIdle ==
    /\ chan = <<>>
    /\ rxAlive = TRUE
    /\ lastSend = ""
    /\ emitted = <<>>
    /\ received = <<>>
    /\ cons = ""

(***************************************************************************)
(* The binary decoder driven by a caller: any interleaving of feed_data,   *)
(* parse_next_item and clear_processed over any chunking of the stream.    *)
(***************************************************************************)
BinInit ==
    /\ frames \in Streams
    /\ parser = NewParser
    /\ items = <<>>
    /\ XmlIdle
    /\ DrvInit
    /\ RdIdle
    /\ ChIdle

\* feed_data with the next n bytes of the stream.
BinFeed ==
    \E n \in 1..(Len(Wire(frames)) - fed) :
        /\ parser' = FeedData(parser, Slice(Wire(frames), fed, fed + n))
        /\ fed' = fed + n
        /\ op' = "feed"
        /\ split' = (split \/ fed + n \notin {FrameEnd(frames, i) : i \in 0..Len(frames)})
        /\ UNCHANGED <<frames, items, ret, xmlVars, rdVars, chVars>>

\* parse_next_item
BinParse ==
    LET r == ParseNextItem(parser)
    IN  /\ parser' = r.p
        /\ ret' = r.res
        /\ items' = IF r.res = None THEN items ELSE Append(items, r.res.v)
        /\ op' = "parse"
        /\ UNCHANGED <<frames, fed, split, xmlVars, rdVars, chVars>>

\* clear_processed
BinClear ==
    /\ parser' = ClearProcessed(parser)
    /\ op' = "clear"
    /\ UNCHANGED <<frames, items, fed, ret, split, xmlVars, rdVars, chVars>>

BinNext == BinFeed \/ BinParse \/ BinClear

SpecBin == BinInit /\ [][BinNext]_vars

(***************************************************************************)
(* The textual decoder driven by a caller: any interleaving of feed_data   *)
(* and parse_next_metadata over any chunking of a valid text into bytes.   *)
(***************************************************************************)
XmlInit ==
    /\ text \in ValidTexts
    /\ xml = NewXmlParser
    /\ out = <<>>
    /\ BinIdle
    /\ DrvInit
    /\ RdIdle
    /\ ChIdle

\* feed_data with the next n bytes of the text.
XmlFeed ==
    \E n \in 1..(Len(text) - fed) :
        /\ xml' = XmlFeedData(xml, Slice(text, fed, fed + n))
        /\ fed' = fed + n
        /\ split' = (split \/ text[fed + n] # 10)
        /\ UNCHANGED <<text, out, op, ret, binVars, rdVars, chVars>>

\* parse_next_metadata
XmlParse ==
    LET r == XmlParseNext(xml)
    IN  /\ xml' = r.p
        /\ out' = IF r.res.tag = "Some"
                  THEN Append(out, [event |-> r.res.v, item |-> r.item, length |-> r.length])
                  ELSE out
        /\ UNCHANGED <<text, fed, split, op, ret, binVars, rdVars, chVars>>

XmlNext == XmlFeed \/ XmlParse

SpecXml == XmlInit /\ [][XmlNext]_vars

(***************************************************************************)
(* The textual decoder fed line by line, as the readers feed it: any       *)
(* interleaving of feed_data (one line), parse_next_metadata and           *)
(* clear_processed over any sequence of lines.                             *)
(***************************************************************************)
LnInit ==
    /\ text \in LineTexts
    /\ xml = NewXmlParser
    /\ out = <<>>
    /\ BinIdle
    /\ DrvInit
    /\ RdIdle
    /\ ChIdle

\* feed_data with the next line of the text, newline included.
LnFeed ==
    /\ fed < Len(text)
    /\ xml' = XmlFeedData(xml, Slice(text, fed, LineEnd(text, fed)))
    /\ fed' = LineEnd(text, fed)
    /\ op' = "feed"
    /\ UNCHANGED <<text, out, ret, split, binVars, rdVars, chVars>>

\* parse_next_metadata
LnParse ==
    LET r == XmlParseNext(xml)
    IN  /\ xml' = r.p
        /\ ret' = r.res
        /\ out' = IF r.res.tag = "Some"
                  THEN Append(out, [event |-> r.res.v, item |-> r.item, length |-> r.length])
                  ELSE out
        /\ op' = "parse"
        /\ UNCHANGED <<text, fed, split, binVars, rdVars, chVars>>

\* clear_processed
LnClear ==
    /\ xml' = XmlClearProcessed(xml)
    /\ op' = "clear"
    /\ UNCHANGED <<text, out, fed, ret, split, binVars, rdVars, chVars>>

LnNext == LnFeed \/ LnParse \/ LnClear

SpecLines == LnInit /\ [][LnNext]_vars

(***************************************************************************)
(* The one-shot reads of MetadataReader (reader.rs 20-142) and             *)
(* ShairportMetadataReader::read_metadata_once (lib.rs 22-31).  The source *)
(* is text, read a line at a time; fed is the offset read_line has reached.*)
(* A step is what runs between two awaits.                                 *)
(***************************************************************************)
Ok(v) == [tag |-> "Ok", v |-> v]

\* The entry points that open a path, and those where would-block is retried.
OpensPath(e) ==
    e \in {"read_from_file", "read_from_named_pipe", "read_metadata_once",
           "start_continuous_reading_from_file"}
RetriesWouldBlock(e) == OpensPath(e)

\* What read_metadata_once returns when its timeout elapses: Ok(Vec::new()).
OnElapsed(collected) == Ok(<<>>)

\* t without its last byte: a source whose last line has no newline.
Unterminated(t) == SubSeq(t, 1, Len(t) - 1)

\* The sources of a one-shot read: the last line may lack its newline.
OnceTexts == LineTexts \cup {Unterminated(t) : t \in LineTexts \ {<<>>}}

OnceInit ==
    /\ entry \in {"read_from_file", "read_from_named_pipe", "read_from_stdin",
                  "read_metadata_once"}
    /\ pc = IF OpensPath(entry) THEN "open" ELSE "loop"
    /\ result = None
    /\ metadata_items = <<>>
    /\ lastRead = ""
    /\ eofAt = -1
    /\ text \in OnceTexts
    /\ xml = NewXmlParser
    /\ out = <<>>
    /\ BinIdle
    /\ DrvInit
    /\ ChIdle

\* OpenOptions::new().read(true).open(path).await? : the file opens, or the
\* error is returned.
OnceOpen ==
    /\ pc = "open"
    /\ \/ pc' = "loop" /\ UNCHANGED result
       \/ pc' = "done" /\ result' = Err("Io")
    /\ UNCHANGED <<entry, eofAt, metadata_items, lastRead, binVars, xmlVars, drvVars, chVars>>

\* read_line returns Ok(n), n > 0: the line is fed, the decoder drained into
\* metadata_items and compacted; a decoder error is returned at once.
OnceCollect(d) ==
    /\ metadata_items' = metadata_items \o d.events
    /\ IF d.err
       THEN xml' = d.p /\ pc' = "done" /\ result' = Err("InvalidFormat")
       ELSE xml' = XmlClearProcessed(d.p) /\ UNCHANGED <<pc, result>>

OnceLine ==
    /\ pc = "loop"
    /\ fed < Len(text)
    /\ OnceCollect(XmlDrain(XmlFeedData(xml, Slice(text, fed, LineEnd(text, fed)))))
    /\ fed' = LineEnd(text, fed)
    /\ lastRead' = "Line"
    /\ UNCHANGED <<entry, eofAt, text, out, op, ret, split, binVars, chVars>>

\* read_line returns Ok(0): the events collected are returned.  The source
\* may end anywhere (a pipe whose writer has closed).
OnceEof ==
    /\ pc = "loop"
    /\ pc' = "done"
    /\ result' = Ok(metadata_items)
    /\ lastRead' = "Eof"
    /\ eofAt' = fed
    /\ UNCHANGED <<entry, metadata_items, binVars, xmlVars, drvVars, chVars>>

\* read_line returns Err(WouldBlock): the file and pipe reads sleep 10 ms and
\* read again, the stdin read returns the error.
OnceWouldBlock ==
    /\ pc = "loop"
    /\ lastRead' = "WouldBlock"
    /\ IF RetriesWouldBlock(entry)
       THEN UNCHANGED <<pc, result>>
       ELSE pc' = "done" /\ result' = Err("Io")
    /\ UNCHANGED <<entry, eofAt, metadata_items, binVars, xmlVars, drvVars, chVars>>

\* read_line returns another error: it is returned.
OnceError ==
    /\ pc = "loop"
    /\ pc' = "done"
    /\ result' = Err("Io")
    /\ lastRead' = "Error"
    /\ UNCHANGED <<entry, eofAt, metadata_items, binVars, xmlVars, drvVars, chVars>>

\* The 5 s of read_metadata_once elapse while read_from_file is at an await:
\* the future is dropped.
OnceElapsed ==
    /\ entry = "read_metadata_once"
    /\ pc \in {"open", "loop"}
    /\ pc' = "done"
    /\ result' = OnElapsed(metadata_items)
    /\ lastRead' = "Elapsed"
    /\ UNCHANGED <<entry, eofAt, metadata_items, binVars, xmlVars, drvVars, chVars>>

OnceNext ==
    OnceOpen \/ OnceLine \/ OnceEof \/ OnceWouldBlock \/ OnceError \/ OnceElapsed

SpecOnce == OnceInit /\ [][OnceNext]_vars

(***************************************************************************)
(* Continuous reading (reader.rs 144-231): the producer task spawned by    *)
(* start_continuous_monitoring[_from_file] (lib.rs 41-65) decodes lines    *)
(* and sends the events on an unbounded channel; the consumer is the       *)
(* select! of main.rs (57-69, 123-135), which polls rx.recv() until the    *)
(* channel ends or ctrl_c wins.  chan is the channel's queue, rxAlive      *)
(* whether the receiver still exists, emitted the events the producer's    *)
(* decoder has returned, received those rx.recv() has returned.            *)
(***************************************************************************)
Unit == <<>>

\* An event sent at the head of the queue instead of its tail.
SendFront(q, m) == <<m>> \o q

\* tx.send(metadata) on an unbounded channel whose receiver exists.
Send(q, m) == Append(q, m)

\* A closed receiver reported as an error.
OnReceiverClosedErr == Err("ChannelClosed")

\* if tx.send(metadata).is_err() { return Ok(()); }
OnReceiverClosed == Ok(Unit)

\* Faulty variant: every continuous loop is left at a zero-length read.
EofBreaksAlways(e) == TRUE

\* Faulty variant: no continuous loop is left at a zero-length read.
EofBreaksNever(e) == FALSE

\* Ok(0) => break in start_continuous_reading; in
\* start_continuous_reading_from_file Ok(0) => { sleep(100 ms); continue }.
EofBreaks(e) == e = "start_continuous_reading"

ContInit ==
    /\ entry \in {"start_continuous_reading", "start_continuous_reading_from_file"}
    /\ pc = IF OpensPath(entry) THEN "open" ELSE "loop"
    /\ result = None
    /\ metadata_items = <<>>
    /\ lastRead = ""
    /\ eofAt = -1
    /\ text \in LineTexts
    /\ xml = NewXmlParser
    /\ out = <<>>
    /\ chan = <<>>
    /\ rxAlive = TRUE
    /\ lastSend = ""
    /\ emitted = <<>>
    /\ received = <<>>
    /\ cons = "polling"
    /\ BinIdle
    /\ DrvInit

\* OpenOptions::new().read(true).open(path).await? of the file variant.
ContOpen ==
    /\ pc = "open"
    /\ \/ pc' = "loop" /\ UNCHANGED result
       \/ pc' = "done" /\ result' = Err("Io")
    /\ UNCHANGED <<entry, eofAt, metadata_items, lastRead, binVars, xmlVars, drvVars, chVars>>

\* read_line returns Ok(n), n > 0: the line is fed; the while-let loop follows.
ContLine ==
    /\ pc = "loop"
    /\ fed < Len(text)
    /\ xml' = XmlFeedData(xml, Slice(text, fed, LineEnd(text, fed)))
    /\ fed' = LineEnd(text, fed)
    /\ lastRead' = "Line"
    /\ pc' = "drain"
    /\ UNCHANGED <<entry, eofAt, result, metadata_items, text, out, op, ret, split,
                   binVars, chVars>>

\* One turn of while let Some(metadata) = xml_parser.parse_next_metadata()?:
\* r is what the decoder returned.  None ends the loop and compacts; an error
\* is returned; an event is sent, and a send that fails returns Ok(()).
ContForward(r) ==
    IF r.res = None THEN
        /\ xml' = XmlClearProcessed(r.p)
        /\ pc' = "loop"
        /\ UNCHANGED <<result, chVars>>
    ELSE IF r.res.tag = "Err" THEN
        /\ xml' = r.p
        /\ pc' = "done"
        /\ result' = Err("InvalidFormat")
        /\ UNCHANGED chVars
    ELSE
        /\ xml' = r.p
        /\ emitted' = Append(emitted, r.res.v)
        /\ IF rxAlive
           THEN /\ chan' = Send(chan, r.res.v)
                /\ lastSend' = "sent"
                /\ UNCHANGED <<pc, result>>
           ELSE /\ lastSend' = "closed"
                /\ pc' = "done"
                /\ result' = OnReceiverClosed
                /\ UNCHANGED chan
        /\ UNCHANGED <<rxAlive, received, cons>>

ContParse ==
    /\ pc = "drain"
    /\ ContForward(XmlParseNext(xml))
    /\ UNCHANGED <<entry, eofAt, metadata_items, lastRead, text, out, fed, op, ret,
                   split, binVars>>

\* read_line returns Ok(0): stdin breaks out of the loop and returns Ok(());
\* the file variant sleeps 100 ms and reads again.
ContEof ==
    /\ pc = "loop"
    /\ lastRead' = "Eof"
    /\ eofAt' = fed
    /\ IF EofBreaks(entry)
       THEN pc' = "done" /\ result' = Ok(Unit)
       ELSE UNCHANGED <<pc, result>>
    /\ UNCHANGED <<entry, metadata_items, binVars, xmlVars, drvVars, chVars>>

\* read_line returns Err(WouldBlock): the file variant sleeps 10 ms and reads
\* again; stdin returns every error.
ContWouldBlock ==
    /\ pc = "loop"
    /\ lastRead' = "WouldBlock"
    /\ IF entry = "start_continuous_reading"
       THEN pc' = "done" /\ result' = Err("Io")
       ELSE UNCHANGED <<pc, result>>
    /\ UNCHANGED <<entry, eofAt, metadata_items, binVars, xmlVars, drvVars, chVars>>

\* read_line returns another error: the file variant sleeps 1 s and reads
\* again; stdin returns Err(MetadataError::Io(e)).
ContError ==
    /\ pc = "loop"
    /\ lastRead' = "Error"
    /\ IF entry = "start_continuous_reading"
       THEN pc' = "done" /\ result' = Err("Io")
       ELSE UNCHANGED <<pc, result>>
    /\ UNCHANGED <<entry, eofAt, metadata_items, binVars, xmlVars, drvVars, chVars>>

\* rx.recv().await returns Some(metadata).
ConsRecv ==
    /\ cons = "polling"
    /\ chan # <<>>
    /\ received' = Append(received, Head(chan))
    /\ chan' = Tail(chan)
    /\ UNCHANGED <<rxAlive, lastSend, emitted, cons, rdVars, binVars, xmlVars, drvVars>>

\* rx.recv().await returns None: the queue is empty and the producer has
\* returned, dropping tx.  The while-let loop ends and rx is dropped.
ConsEnd ==
    /\ cons = "polling"
    /\ chan = <<>>
    /\ pc = "done"
    /\ cons' = "ended"
    /\ rxAlive' = FALSE
    /\ UNCHANGED <<chan, lastSend, emitted, received, rdVars, binVars, xmlVars, drvVars>>

\* ctrl_c wins the select!: the polling future is dropped, and rx with it; what
\* was queued is dropped unreceived.
ConsCancel ==
    /\ cons = "polling"
    /\ cons' = "cancelled"
    /\ rxAlive' = FALSE
    /\ chan' = <<>>
    /\ UNCHANGED <<lastSend, emitted, received, rdVars, binVars, xmlVars, drvVars>>

ContNext ==
    \/ ContOpen \/ ContLine \/ ContParse \/ ContEof \/ ContWouldBlock \/ ContError
    \/ ConsRecv \/ ConsEnd \/ ConsCancel

SpecCont == ContInit /\ [][ContNext]_vars

\* The consumer is a task of the runtime blocked in rx.recv().await: it is
\* woken, and recv completes, whenever an event is queued or the last sender
\* is gone.  Nothing makes the source deliver a line or the user cancel.
SpecContFair == SpecCont /\ WF_vars(ConsRecv) /\ WF_vars(ConsEnd)

(***************************************************************************)
(* clear_processed of both decoders, called again and again on decoders    *)
(* that a caller has fed and parsed.  The binary decoders are those        *)
(* reached by one feed_data of the first fed bytes of a stream and up to   *)
(* two parse_next_item; the textual decoders those reached by one          *)
(* feed_data of a line and a partial line up to and over the 10000 bytes   *)
(* that clear_processed keeps.                                             *)
(***************************************************************************)
MaxClearFrames == 2

\* The frames of type "core".
ClearFrames == {f \in Frames : f.type = TagCore}

\* One parse_next_item of a caller that keeps the Records returned.
ParseStep(s) ==
    LET r == ParseNextItem(s.p)
    IN  [p     |-> r.p,
         items |-> IF r.res = None THEN s.items ELSE Append(s.items, r.res.v)]

\* The decoder and the Records returned after feed_data(bytes) and 0, 1 or 2
\* parse_next_item.
DecodersAfter(bytes) ==
    LET s0 == [p |-> FeedData(NewParser, bytes), items |-> <<>>]
        s1 == ParseStep(s0)
    IN  {s0, s1, ParseStep(s1)}

\* n bytes 'x' without a newline: a partial line.
PartialLine(n) == [i \in 1..n |-> 120]

ClearXmlParsers ==
    {XmlFeedData(NewXmlParser, chunk) :
        chunk \in {LineZero \o <<10>> \o PartialLine(3),
                   PartialLine(XmlBufferLimit),
                   PartialLine(XmlBufferLimit + 1),
                   LineZero \o <<10>> \o PartialLine(XmlBufferLimit + 1)}}

ClearInit ==
    /\ frames \in SeqsUpTo(ClearFrames, MaxClearFrames)
    /\ fed \in 0..Len(Wire(frames))
    /\ \E s \in DecodersAfter(Slice(Wire(frames), 0, fed)) :
           parser = s.p /\ items = s.items
    /\ xml \in ClearXmlParsers
    /\ text = <<>>
    /\ out = <<>>
    /\ op = "new"
    /\ ret = None
    /\ split = FALSE
    /\ RdIdle
    /\ ChIdle

\* clear_processed of the binary decoder.
ClearBin ==
    /\ parser' = ClearProcessed(parser)
    /\ op' = IF op = "xml_clear" THEN "clear" ELSE IF op = "new" THEN "bin_clear" ELSE op
    /\ UNCHANGED <<frames, items, xmlVars, fed, ret, split, rdVars, chVars>>

\* clear_processed of the textual decoder.
ClearXml ==
    /\ xml' = XmlClearProcessed(xml)
    /\ op' = IF op = "bin_clear" THEN "clear" ELSE IF op = "new" THEN "xml_clear" ELSE op
    /\ UNCHANGED <<text, out, binVars, fed, ret, split, rdVars, chVars>>

ClearNext == ClearBin \/ ClearXml

SpecClear == ClearInit /\ [][ClearNext]_vars

(***************************************************************************)
(* ShairportMetadata::from_item applied to Records: every type and code of *)
(* the match, in every combination, with other tags and with payloads that *)
(* are and are not UTF-8.  items holds the Record, ret the event returned. *)
(***************************************************************************)
\* "xxxx", a tag of no arm.
TagUnknown == <<120, 120, 120, 120>>

ClassifyTypes ==
    {TagCoreStr, TagSsnc, TagPictLower, TagPictUpper, TagUnknown, TagString(TagRaw)}

ClassifyCodes ==
    {e[2] : e \in StringTable \cup SignalTable}
        \cup {TagMper, TagPictLower, TagPictUpper, TagCoreStr, TagUnknown,
              TagString(TagRaw)}

\* Payloads: none, "Song", "é", and bytes that are not UTF-8.
ClassifyPayloads ==
    {<<>>, <<83, 111, 110, 103>>, <<195, 169>>, <<255>>, <<10, 171, 0>>,
     <<83, 192, 128>>}

ClassifyInit ==
    /\ \E t \in ClassifyTypes, c \in ClassifyCodes, d \in ClassifyPayloads :
           items = <<MetadataItem(t, c, d)>>
    /\ frames = <<>>
    /\ parser = NewParser
    /\ XmlIdle
    /\ DrvInit
    /\ RdIdle
    /\ ChIdle

\* ShairportMetadata::from_item(&item)
Classify ==
    /\ op = "new"
    /\ ret' = Some(FromItem(items[1]))
    /\ op' = "from_item"
    /\ UNCHANGED <<binVars, xmlVars, fed, split, rdVars, chVars>>

ClassifyNext == Classify

SpecClassify == ClassifyInit /\ [][ClassifyNext]_vars

(***************************************************************************)
(* The textual decoder fed byte chunks that need not be UTF-8.             *)
(***************************************************************************)
\* Bound on the lines of such a text.
MaxRawLines == 2

\* The length 0 header followed by the byte 0xFF, which no UTF-8 text holds.
LineZeroRaw == LineZero \o <<255>>

\* The texts: up to MaxRawLines lines, each ended by a newline.
RawLines == {LineZero, LineZeroRaw, LineSo}
RawTexts == {TextOf(ls) : ls \in SeqsUpTo(RawLines, MaxRawLines)}

\* Where a chunk that starts at offset i of t may end: after one byte, at the
\* end of the line, or at the end of the text.
ChunkEnds(t, i) == {i + 1, LineEnd(t, i), Len(t)}

RawInit ==
    /\ text \in RawTexts
    /\ xml = NewXmlParser
    /\ out = <<>>
    /\ BinIdle
    /\ DrvInit
    /\ RdIdle
    /\ ChIdle

\* feed_data with the next chunk of the text.
RawFeed ==
    \E e \in ChunkEnds(text, fed) :
        /\ fed < Len(text)
        /\ xml' = XmlFeedData(xml, Slice(text, fed, e))
        /\ fed' = e
        /\ op' = "feed"
        /\ UNCHANGED <<text, out, ret, split, binVars, rdVars, chVars>>

\* parse_next_metadata
RawParse ==
    LET r == XmlParseNext(xml)
    IN  /\ xml' = r.p
        /\ ret' = r.res
        /\ out' = IF r.res.tag = "Some"
                  THEN Append(out, [event |-> r.res.v, item |-> r.item, length |-> r.length])
                  ELSE out
        /\ op' = "parse"
        /\ UNCHANGED <<text, fed, split, binVars, rdVars, chVars>>

RawNext == RawFeed \/ RawParse

SpecRaw == RawInit /\ [][RawNext]_vars

(***************************************************************************)
(* Claims about the binary decoder.                                        *)
(***************************************************************************)
\* The bytes of the stream fed so far.
FedBytes == Slice(Wire(frames), 0, fed)

\* parse_next_item would return None: the decoder is drained.
BinDrained == ParseNextItem(parser).res = None

\* C1: chunk-boundary independence of the binary decoder.  However the bytes
\* fed so far were split into feed_data calls, once parse_next_item has
\* nothing more to return the Records returned are exactly those of one
\* feed_data of the same bytes drained once.
C1_BinChunkIndependence == BinDrained => items = OneShot(FedBytes)

\* C1 witness: a whole two-frame stream, fed in chunks of which one ended
\* inside a frame, drained to two Records.
C1_Witness ==
    /\ split
    /\ fed = Len(Wire(frames))
    /\ BinDrained
    /\ Len(items) = 2

\* C3: a frame whose declared length exceeds the payload buffered so far gives
\* no spurious or truncated Record.  Every Record returned is the Record of
\* the next frame of the stream, whole, and all of that frame had been fed;
\* a call returns None only while the next frame is not wholly fed, so the
\* first call after its last byte arrives returns its Record.
C3_NoTruncatedRecord ==
    /\ Len(items) <= Len(frames)
    /\ \A i \in 1..Len(items) :
           items[i] = RecordOf(frames[i]) /\ FrameEnd(frames, i) <= fed
    /\ (op = "parse" /\ ret = None) =>
           (Len(items) = Len(frames) \/ fed < FrameEnd(frames, Len(items) + 1))
    /\ (op = "parse" /\ ret # None) => ret = Some(items[Len(items)])

\* C3 witness: parse_next_item has just returned None on a buffered header
\* that declares two payload bytes of which one has arrived.
C3_Witness ==
    /\ op = "parse"
    /\ ret = None
    /\ Len(parser.buffer) - parser.position = 13
    /\ FromBeBytes(Slice(parser.buffer, parser.position + 8, parser.position + 12)) = 2

\* The unread bytes of the binary decoder.
Unread == Slice(parser.buffer, parser.position, Len(parser.buffer))

\* C15: a frame of declared length 0.  Whenever the 12 bytes of a header
\* declaring length 0 are unread in the buffer, whatever follows them or
\* nothing at all, parse_next_item returns the Record of that header with an
\* empty payload and moves the cursor by exactly 12, leaving the buffer alone.
C15_ZeroLengthFrame ==
    (Len(Unread) >= 12 /\ Slice(Unread, 8, 12) = <<0, 0, 0, 0>>) =>
        LET r == ParseNextItem(parser)
        IN  /\ r.res = Some(MetadataItem(TagString(Slice(Unread, 0, 4)),
                                         TagString(Slice(Unread, 4, 8)), <<>>))
            /\ r.p.position = parser.position + 12
            /\ r.p.buffer = parser.buffer

\* C15 witness: parse_next_item has returned a Record with an empty payload
\* when its header was all that was buffered and more of the stream was to
\* come.
C15_Witness ==
    /\ op = "parse"
    /\ ret # None
    /\ ret.v.data = <<>>
    /\ parser.position = Len(parser.buffer)
    /\ fed < Len(Wire(frames))

\* C19: a parse_next_item that returns None consumes nothing.  Whenever the
\* call would return None, with fewer than 12 unread bytes or with a payload
\* not wholly buffered, it leaves buffer and cursor as they are; and after a
\* call that returned None the next call, with no feed between, returns None
\* and changes nothing.
C19_NoneConsumesNothing ==
    /\ ParseNextItem(parser).res = None => ParseNextItem(parser).p = parser
    /\ (op = "parse" /\ ret = None) =>
           ParseNextItem(parser) = [p |-> parser, res |-> None]

\* C19 witness: after a Record was returned, parse_next_item has returned None
\* on a whole header whose payload is not wholly buffered.
C19_Witness ==
    /\ op = "parse"
    /\ ret = None
    /\ parser.position > 0
    /\ Len(Unread) >= 12
    /\ items # <<>>

\* The 4 bytes of a tag a Record carries as a String: the String itself, or
\* the eight hex digits after "0x".
TagBytes(str) ==
    IF Len(str) = 4 THEN str
    ELSE [i \in 1..4 |-> HexValue(str[2 * i + 1]) * 16 + HexValue(str[2 * i + 2])]

\* The wire encoding of a Record: type, code, big-endian length, payload.
WireOf(item) ==
    TagBytes(item.item_type) \o TagBytes(item.code)
        \o ToBeBytes(Len(item.data)) \o item.data

\* The bytes fed that the decoder has consumed: all but the unread ones.
Consumed == fed - Len(Unread)

\* C20: no record is lost or duplicated.  After any interleaving of feed_data,
\* parse_next_item and clear_processed, the wire encodings of the Records
\* returned so far, concatenated in the order returned, are exactly the
\* consumed prefix of the bytes fed, and the Records are those of the first
\* frames of the stream in stream order.
C20_NoLossNoDuplicate ==
    /\ Concat([i \in 1..Len(items) |-> WireOf(items[i])])
           = Slice(Wire(frames), 0, Consumed)
    /\ Len(items) <= Len(frames)
    /\ \A i \in 1..Len(items) : items[i] = RecordOf(frames[i])

\* C20 witness: two Records returned, one of them with a tag that is not
\* UTF-8, with compaction between them and every byte fed consumed.
C20_Witness ==
    /\ Len(items) = 2
    /\ items[1].item_type # items[2].item_type
    /\ op = "parse"
    /\ Len(parser.buffer) < fed
    /\ Unread = <<>>
    /\ split

(***************************************************************************)
(* Claims about the textual decoder fed in byte chunks.                    *)
(***************************************************************************)
\* The events parse_next_metadata has returned.
Events(o) == [i \in 1..Len(o) |-> o[i].event]

\* parse_next_metadata would return None: the decoder is drained.
XmlDrained == XmlParseNext(xml).res = None

\* C2: chunk-boundary independence of the textual decoder.  For a valid text,
\* however the bytes fed so far were split into feed_data calls (at line ends
\* or anywhere inside a line), once parse_next_metadata has nothing more to
\* return the events returned are exactly those of one feed_data of the same
\* bytes drained once.
C2_XmlChunkIndependence ==
    XmlDrained => Events(out) = XmlOneShot(Slice(text, 0, fed))

\* C2 witness: a whole text of two records, fed in chunks of which one ended
\* inside a line, drained to two events.
C2_Witness ==
    /\ split
    /\ fed = Len(text)
    /\ XmlDrained
    /\ Len(out) = 2

(***************************************************************************)
(* Claims about the textual decoder fed line by line.                      *)
(***************************************************************************)
\* C4: the textual decoder surfaces no partial Record.  Every event returned
\* for a header that declares a length above 0 was built from a payload of
\* at least that many bytes.
C4_NoPartialRecord ==
    \A i \in 1..Len(out) :
        out[i].length > 0 => Len(out[i].item.data) >= out[i].length

(***************************************************************************)
(* Claims about the one-shot reads.                                        *)
(***************************************************************************)
\* The events a returned value carries to the caller: an Err carries none.
Delivered(r) == IF r.tag = "Ok" THEN r.v ELSE <<>>

\* C5: no error loses events already decoded.  When read_from_file,
\* read_from_named_pipe or read_from_stdin returns an error, the events
\* collected before it are delivered to the caller.
C5_ErrorKeepsEvents ==
    (/\ entry \in {"read_from_file", "read_from_named_pipe", "read_from_stdin"}
     /\ pc = "done"
     /\ result.tag = "Err")
        => Delivered(result) = metadata_items

\* C6: when the timeout of read_metadata_once elapses, the call returns Ok
\* with every event collected before it elapsed.
C6_TimeoutKeepsEvents ==
    (entry = "read_metadata_once" /\ pc = "done" /\ lastRead = "Elapsed")
        => result = Ok(metadata_items)

(***************************************************************************)
(* Claims about continuous reading.                                        *)
(***************************************************************************)
IsPrefix(a, b) == Len(a) <= Len(b) /\ Slice(b, 0, Len(a)) = a

\* C7: while the receiver is alive the events received are a prefix of the
\* events the decoder has emitted, in decode order, and every other emitted
\* event is in the queue, in order, to be received: none is lost, duplicated
\* or reordered.
C7_ChannelOrder ==
    rxAlive => (IsPrefix(received, emitted) /\ received \o chan = emitted)

\* C7 witness: two events emitted, the first received, the second queued.
C7_Witness ==
    rxAlive /\ Len(emitted) = 2 /\ Len(received) = 1 /\ Len(chan) = 1

\* C8: in both continuous variants, once a send has found the receiver gone the
\* producer has returned Ok(()), and nothing is in the queue of a channel
\* whose receiver is gone.
C8_ReceiverGone ==
    /\ lastSend = "closed" => (pc = "done" /\ result = Ok(Unit))
    /\ ~rxAlive => chan = <<>>

\* C8 witness: the file variant has found the receiver gone on a send that
\* followed one that succeeded.
C8_Witness ==
    /\ entry = "start_continuous_reading_from_file"
    /\ lastSend = "closed"
    /\ Len(emitted) = 2
    /\ Len(received) + Len(chan) < 2

\* C9: once the consumer is cancelled, the producer of the file variant ends
\* at its next would-block or error cycle: a read that returns would-block or
\* another error after the cancellation leaves the producer returned.
C9_EndsAtNextCycle ==
    [][(/\ cons = "cancelled"
        /\ entry = "start_continuous_reading_from_file"
        /\ pc = "loop"
        /\ lastRead' \in {"WouldBlock", "Error"})
            => pc' = "done"]_vars

\* C10: in every continuous variant a read error other than would-block is
\* retried: after such an error the producer is still in its read loop.
C10_ReadErrorRetried ==
    (entry \in {"start_continuous_reading", "start_continuous_reading_from_file"}
     /\ lastRead = "Error")
        => pc = "loop"

\* The events of the lines read so far, decoded in one go.
DecodedSoFar == XmlOneShot(Slice(text, 0, fed))

\* C11: start_continuous_reading_from_file is not ended by a zero-length
\* read: right after one the producer is at read_line again with nothing
\* returned; and once a line read after a zero-length read has been decoded,
\* the events emitted are exactly those of all the lines read so far, in
\* order, and while the receiver exists they are all received or queued in
\* that order.
C11_EofNotFinal ==
    entry = "start_continuous_reading_from_file" =>
        /\ lastRead = "Eof" => (pc = "loop" /\ result = None)
        /\ (pc = "loop" /\ lastRead = "Line" /\ eofAt >= 0) =>
               /\ emitted = DecodedSoFar
               /\ rxAlive => received \o chan = emitted

\* C11 witness: a zero-length read, then a line read that completed a record,
\* whose event was forwarded.
C11_Witness ==
    /\ entry = "start_continuous_reading_from_file"
    /\ pc = "loop"
    /\ lastRead = "Line"
    /\ rxAlive
    /\ eofAt >= 0
    /\ eofAt < fed
    /\ Len(emitted) > Len(XmlOneShot(Slice(text, 0, eofAt)))
    /\ received \o chan = emitted

\* C12: a continuous monitor that cannot open its source keeps trying: before
\* its first read_line, start_continuous_reading_from_file has not returned,
\* so its sender is not dropped and the channel stays open.
C12_OpenRetried ==
    (entry = "start_continuous_reading_from_file" /\ lastRead = "")
        => (pc \in {"open", "loop"} /\ result = None)

\* C13: in every one-shot read a would-block is retried: right after a
\* read_line that returned would-block the read is at read_line again and has
\* returned nothing, neither its events nor an error.
C13_WouldBlockRetried ==
    (/\ entry \in {"read_from_file", "read_from_named_pipe", "read_from_stdin"}
     /\ lastRead = "WouldBlock")
        => (pc = "loop" /\ result = None)

(***************************************************************************)
(* Claims about clear_processed.                                           *)
(***************************************************************************)
\* C14: clear_processed is idempotent.  Once clear_processed has been called,
\* on the binary decoder and on the textual one, calling it again leaves the
\* decoder (buffer and position; remainder and pending lines) as it is.
C14_ClearIdempotent ==
    /\ op \in {"bin_clear", "clear"} => ClearProcessed(parser) = parser
    /\ op \in {"xml_clear", "clear"} => XmlClearProcessed(xml) = xml

\* C14 witness: both decoders compacted, the binary one with unread bytes
\* kept, the textual one with its remainder dropped and its queued line kept.
C14_Witness ==
    /\ op = "clear"
    /\ parser.position = 0
    /\ parser.buffer # <<>>
    /\ Len(parser.buffer) < fed
    /\ xml.buffer = <<>>
    /\ xml.pending_lines # <<>>

(***************************************************************************)
(* Claims about the classifier.                                            *)
(***************************************************************************)
\* The pairs the match of from_item names: those of its arms with a string,
\* its signals, ("core", "mper") and the three Picture patterns.
InTable(t, c) ==
    \/ \E e \in StringTable \cup SignalTable : e[1] = t /\ e[2] = c
    \/ t = TagCoreStr /\ c = TagMper
    \/ t = TagSsnc /\ c = TagPictLower
    \/ t = TagPictLower
    \/ t = TagCoreStr /\ c = TagPictUpper

\* C16: the fallback.  from_item returns an event for every Record; for a
\* pair absent from the table it is Other with the Record's item_type, code
\* and data, and for no other pair is it Other.
C16_Fallback ==
    op = "from_item" =>
        /\ ret.tag = "Some"
        /\ ~InTable(items[1].item_type, items[1].code) =>
               ret.v = [variant |-> "Other", item_type |-> items[1].item_type,
                        code |-> items[1].code, data |-> items[1].data]
        /\ InTable(items[1].item_type, items[1].code) => ret.v.variant # "Other"

\* C16 witness: a Record of type "core" with a code of no arm and a payload
\* that is not UTF-8 has been classified.
C16_Witness ==
    /\ op = "from_item"
    /\ items[1].item_type = TagCoreStr
    /\ items[1].code = TagUnknown
    /\ items[1].data = <<10, 171, 0>>
    /\ ret.v.variant = "Other"

\* C17: ("ssnc", "pict"), ("pict", any code) and ("core", "PICT") classify as
\* Picture with the payload bytes as they are, whatever the code of a Record
\* of type "pict", a code of another arm included.
C17_Picture ==
    (/\ op = "from_item"
     /\ \/ items[1].item_type = <<115, 115, 110, 99>>
              /\ items[1].code = <<112, 105, 99, 116>>
        \/ items[1].item_type = <<112, 105, 99, 116>>
        \/ items[1].item_type = <<99, 111, 114, 101>>
              /\ items[1].code = <<80, 73, 67, 84>>)
        => ret.v = [variant |-> "Picture", data |-> items[1].data]

\* C17 witness: ("pict", "minm"), whose code is that of the Title arm, has
\* been classified as Picture with a payload that is not UTF-8.
C17_Witness ==
    /\ op = "from_item"
    /\ items[1].item_type = TagPictLower
    /\ items[1].code = <<109, 105, 110, 109>>
    /\ items[1].data = <<255>>
    /\ ret.v = [variant |-> "Picture", data |-> <<255>>]

\* The value of a lowercase hex digit, -1 for any other character.
LowerHexValue(ch) ==
    IF ch >= 48 /\ ch <= 57 THEN ch - 48
    ELSE IF ch >= 97 /\ ch <= 102 THEN ch - 87
    ELSE -1

\* str is d in lowercase hex: two digits per byte and nothing else.
IsLowerHexOf(str, d) ==
    /\ Len(str) = 2 * Len(d)
    /\ \A i \in 1..Len(d) :
           /\ LowerHexValue(str[2 * i - 1]) >= 0
           /\ LowerHexValue(str[2 * i]) >= 0
           /\ 16 * LowerHexValue(str[2 * i - 1]) + LowerHexValue(str[2 * i]) = d[i]

\* C18: for every pair of an arm with a string, the event is that arm's
\* variant and its string is the payload when the payload is UTF-8, else the
\* payload in lowercase hex; ("core", "minm") with "Song" is Title("Song")
\* and ("core", "caps") is Capabilities; and the six signals of "ssnc" give
\* their variant, which carries nothing, whatever the payload.
C18_StringOrHex ==
    op = "from_item" =>
        LET t == items[1].item_type
            c == items[1].code
            d == items[1].data
        IN  /\ \A e \in StringTable : (e[1] = t /\ e[2] = c) =>
                   /\ DOMAIN ret.v = {"variant", "s"}
                   /\ ret.v.variant = e[3]
                   /\ IF Utf8Valid(d) THEN ret.v.s = d ELSE IsLowerHexOf(ret.v.s, d)
            /\ (t = <<99, 111, 114, 101>> /\ c = <<109, 105, 110, 109>>
                    /\ d = <<83, 111, 110, 103>>)
                   => ret.v = [variant |-> "Title", s |-> <<83, 111, 110, 103>>]
            /\ (t = <<99, 111, 114, 101>> /\ c = <<99, 97, 112, 115>>)
                   => ret.v.variant = "Capabilities"
            /\ \A e \in SignalTable : (e[1] = t /\ e[2] = c) =>
                   ret.v = [variant |-> e[3]]
            /\ (t = <<115, 115, 110, 99>>
                    /\ c \in {<<112, 98, 101, 103>>, <<112, 101, 110, 100>>,
                              <<112, 102, 108, 115>>, <<112, 114, 115, 109>>,
                              <<97, 98, 101, 103>>, <<97, 101, 110, 100>>})
                   => DOMAIN ret.v = {"variant"}

\* C18 witness: ("core", "caps") with the payload 0a ab 00, which is not
\* UTF-8, has been classified, its string being "0aab00".
C18_Witness ==
    /\ op = "from_item"
    /\ items[1].item_type = TagCoreStr
    /\ items[1].code = <<99, 97, 112, 115>>
    /\ items[1].data = <<10, 171, 0>>
    /\ ret.v.s = <<48, 97, 97, 98, 48, 48>>

\* C21: compaction of the binary decoder.  In every state clear_processed
\* would leave exactly the unread bytes, in order, with the cursor at 0, and
\* the Records still to be extracted are the same with and without it; so
\* after any interleaving with clear_processed calls the Records returned so
\* far followed by those still to be extracted are the Records of one
\* feed_data of the bytes fed, and right after a clear_processed the cursor
\* is 0.
C21_CompactionKeepsRecords ==
    /\ ClearProcessed(parser) = [buffer |-> Unread, position |-> 0]
    /\ Drain(ClearProcessed(parser)) = Drain(parser)
    /\ items \o Drain(parser) = OneShot(FedBytes)
    /\ op = "clear" => parser.position = 0

\* C21 witness: a clear_processed has dropped processed bytes after a Record
\* was returned, and a whole Record is still unread behind the cursor.
C21_Witness ==
    /\ op = "clear"
    /\ items # <<>>
    /\ Len(parser.buffer) < fed
    /\ Drain(parser) # <<>>

(***************************************************************************)
(* Claims about the header lines of the textual decoder.                   *)
(***************************************************************************)
\* C22: lines that are not well-formed headers are noise.  No call of
\* parse_next_metadata returns an error: a line whose hex group is longer
\* than 8 digits, like every other line that is not a record header, is
\* discarded and extraction goes on with the next queued line.
C22_NoErrorOnNoise == op = "parse" => ret.tag # "Err"


\* The queue q without the lines before its first header line.
RECURSIVE SkipNoise(_)
SkipNoise(q) ==
    IF q = <<>> \/ Captures(Head(q)) # None THEN q ELSE SkipNoise(Tail(q))

\* line is a header whose numbers convert and whose declared length is > 0.
HeaderWithData(line) ==
    LET c == Captures(line)
    IN  /\ c # None
        /\ HexToU32(c.v[1]) # None
        /\ HexToU32(c.v[2]) # None
        /\ ParseUsize(c.v[3]) # None
        /\ ParseUsize(c.v[3]).v > 0

\* The number of header lines among the lines of q.
RECURSIVE HeaderCount(_)
HeaderCount(q) ==
    IF q = <<>> THEN 0
    ELSE (IF Captures(Head(q)) # None THEN 1 ELSE 0) + HeaderCount(Tail(q))

\* The non-blank newline-terminated lines among the bytes fed so far.
FedLines ==
    LET nl   == {i \in 1..fed : text[i] = 10}
        ends == [k \in 1..Cardinality(nl) |->
                    CHOOSE i \in nl : Cardinality({j \in nl : j < i}) = k - 1]
        all  == [k \in 1..Cardinality(nl) |->
                    SubSeq(text, (IF k = 1 THEN 1 ELSE ends[k - 1] + 1), ends[k] - 1)]
    IN  SelectSeq(all, LAMBDA l : Trim(l) # <<>>)

\* C23: the push-back of a header that has to wait.  When the first header of
\* the queue declares length > 0 and fewer than two lines are queued behind
\* it, parse_next_metadata returns None and leaves the queue with that header
\* at the front and the lines behind it unchanged and in order; when two or
\* more lines are behind it, parse_next_metadata emits its record and takes
\* the header out of the queue.  No header line is emitted more than once:
\* the events returned never outnumber the header lines that left the queue.
C23_HeaderPushedBack ==
    LET q == SkipNoise(xml.pending_lines)
        r == XmlParseNext(xml)
    IN  /\ (q # <<>> /\ HeaderWithData(Head(q))) =>
              IF Len(q) - 1 < LinesNeeded
              THEN r = [p |-> [xml EXCEPT !.pending_lines = q], res |-> None]
              ELSE /\ r.res.tag = "Some"
                   /\ r.length = ParseUsize(Captures(Head(q)).v[3]).v
                   /\ r.p.pending_lines
                          \in {SubSeq(q, 3, Len(q)), SubSeq(q, 4, Len(q))}
        /\ Len(out) + HeaderCount(xml.pending_lines) <= HeaderCount(FedLines)

\* C23 witness: parse_next_metadata has just dropped a line of noise, met a
\* length > 0 header with one line behind it, returned None and left the
\* header at the front of the queue with that line behind it.
C23_Witness ==
    /\ op = "parse"
    /\ ret = None
    /\ Len(xml.pending_lines) = 2
    /\ HeaderWithData(xml.pending_lines[1])
    /\ Len(FedLines) = 3


\* C24: a data-start line that is not the marker.  When the first header of
\* the queue declares length > 0, has two or more lines behind it and the
\* line right behind it does not trim to the data-open marker,
\* parse_next_metadata emits the record with an empty payload and removes the
\* header and that line only: the line that follows stays queued, and when it
\* is a header its record is emitted by the next call.
C24_MismatchKeepsNextLine ==
    LET q  == SkipNoise(xml.pending_lines)
        r  == XmlParseNext(xml)
        fl == FedLines
    IN  /\ (/\ q # <<>>
            /\ HeaderWithData(Head(q))
            /\ Len(q) - 1 >= LinesNeeded
            /\ Trim(q[2]) # DataOpen) =>
               /\ r.res.tag = "Some"
               /\ r.item.data = <<>>
               /\ r.p.pending_lines = SubSeq(q, 3, Len(q))
        /\ (/\ Len(fl) = 3
            /\ HeaderWithData(fl[1])
            /\ Trim(fl[2]) # DataOpen
            /\ fl[3] = LineZero
            /\ xml.pending_lines = <<>>) =>
               /\ Len(out) = 2
               /\ out[1].item.data = <<>>
               /\ out[2].item = MetadataItem(TagSsnc, <<112, 98, 101, 103>>, <<>>)

\* C24 witness: after a length > 0 header whose next line was not the marker,
\* the line behind that one, a length 0 header, has been emitted as a record
\* of its own.
C24_Witness ==
    /\ op = "parse"
    /\ Len(FedLines) = 3
    /\ HeaderWithData(FedLines[1])
    /\ Trim(FedLines[2]) # DataOpen
    /\ FedLines[3] = LineZero
    /\ Len(out) = 2
    /\ xml.pending_lines = <<>>

\* C24 as first stated: the line that follows the mismatched data-start line
\* is removed from the queue as noise and cannot start a record, so three
\* lines of which the first is a length > 0 header and the second is not the
\* marker yield at most one record.
C24_NextLineIsNoise ==
    (/\ Len(FedLines) = 3
     /\ HeaderWithData(FedLines[1])
     /\ Trim(FedLines[2]) # DataOpen) => Len(out) <= 1

(***************************************************************************)
(* Claims about chunks that are not UTF-8.                                 *)
(***************************************************************************)
\* The decodable text of bytes whose only undecodable byte is 0xFF.
Decodable(bytes) == SelectSeq(bytes, LAMBDA b : b # 255)

\* The non-blank complete lines of the decodable text of the bytes fed.
DecodableLines ==
    SplitLines([buffer        |-> Decodable(Slice(text, 0, fed)),
                pending_lines |-> <<>>]).pending_lines

\* C25: undecodable bytes are dropped and the decodable text of the same
\* chunk is kept.  Every complete non-blank line of the decodable text fed so
\* far has been queued: once the queue is drained, each header line among
\* them has given its record.
C25_DecodableTextKept ==
    (op = "parse" /\ xml.pending_lines = <<>>)
        => Len(out) = HeaderCount(DecodableLines)

(***************************************************************************)
(* Claims about the cursor of the binary decoder.                          *)
(***************************************************************************)
\* C26: the cursor stays inside the buffer.  In every state reached by any
\* interleaving of feed_data, parse_next_item and clear_processed,
\* 0 <= position <= buffer length, so buffer.len() - position does not
\* underflow; a parse_next_item that rolls back does so from a cursor of
\* at least 12, and the header it slices lies inside the buffer.
C26_CursorInBuffer ==
    /\ 0 <= parser.position
    /\ parser.position <= Len(parser.buffer)
    /\ Len(parser.buffer) - parser.position >= 12 =>
           /\ parser.position + 12 <= Len(parser.buffer)
           /\ (ParseNextItem(parser).res = None =>
                   ParseNextItem(parser).p.position = parser.position)
           /\ (ParseNextItem(parser).res # None =>
                   ParseNextItem(parser).p.position
                       = parser.position + 12 + Len(ParseNextItem(parser).res.v.data))
    /\ ParseNextItem(parser).p.position <= Len(parser.buffer)

\* C26 witness: parse_next_item has just rolled the cursor back over the
\* header of a frame whose payload is not all there, behind a returned frame
\* and after a compaction.
C26_Witness ==
    /\ op = "parse"
    /\ ret = None
    /\ items # <<>>
    /\ Len(parser.buffer) < fed
    /\ Len(parser.buffer) - parser.position >= 12


\* line is a header whose numbers convert: parse_next_metadata on it alone
\* gives a record or waits, with no error.
ValidHeader(line) ==
    LET c == Captures(line)
    IN  /\ c # None
        /\ HexToU32(c.v[1]) # None
        /\ HexToU32(c.v[2]) # None
        /\ ParseUsize(c.v[3]) # None

\* C27: the line right behind a length > 0 header is lost as a header.  When
\* the first header of the queue declares length > 0 and has two or more
\* lines behind it, parse_next_metadata removes the line right behind it
\* whatever it holds.  When that line is itself a valid header, no call
\* emits its record: of the lines fed, only the first and those from the
\* third on give records, and the first record is that of the first header.
C27_HeaderAfterHeaderLost ==
    LET q == SkipNoise(xml.pending_lines)
        r == XmlParseNext(xml)
        fl == FedLines
    IN  /\ (q # <<>> /\ HeaderWithData(Head(q)) /\ Len(q) - 1 >= LinesNeeded) =>
               /\ Len(r.p.pending_lines) <= Len(q) - 2
               /\ r.p.pending_lines
                      = SubSeq(q, Len(q) - Len(r.p.pending_lines) + 1, Len(q))
        /\ (/\ Len(fl) >= 2
            /\ HeaderWithData(fl[1])
            /\ ValidHeader(fl[2])) =>
               /\ Len(out) + HeaderCount(xml.pending_lines)
                      <= (IF out = <<>> THEN 2 ELSE 1)
                             + HeaderCount(SubSeq(fl, 3, Len(fl)))
               /\ out # <<>> => out[1].length > 0

\* C27 witness: a length > 0 header, a length 0 header and a line of noise
\* were fed; the first header's record was emitted, and a later
\* parse_next_metadata has emptied the queue and returned None.
C27_Witness ==
    /\ op = "parse"
    /\ ret = None
    /\ Len(FedLines) = 3
    /\ HeaderWithData(FedLines[1])
    /\ FedLines[2] = LineZero
    /\ ~ValidHeader(FedLines[3])
    /\ xml.pending_lines = <<>>
    /\ Len(out) = 1

(***************************************************************************)
(* Claims about the end of the source in a one-shot read.                  *)
(***************************************************************************)
\* The lines fed that have left the queue.
ConsumedLines == SubSeq(FedLines, 1, Len(FedLines) - Len(xml.pending_lines))

\* The events of the lines ls queued and drained in one go.
EventsOfLines(ls) == XmlDrain([buffer |-> <<>>, pending_lines |-> ls]).events

\* C28: a waiting header blocks the queue.  Between two reads of a one-shot
\* read the queue is empty or starts with a length > 0 header that has fewer
\* than two lines behind it, and then nothing can be extracted, whatever is
\* queued behind the header.  When end-of-stream is read the events returned
\* are those that draining the lines read in one go gives, and they come from
\* the lines that left the queue: neither the waiting header nor a complete
\* header behind it has given a record.
C28_BlockedAtEof ==
    /\ (pc = "loop" /\ xml.pending_lines # <<>>) =>
           /\ HeaderWithData(Head(xml.pending_lines))
           /\ Len(xml.pending_lines) - 1 < LinesNeeded
           /\ EventsOfLines(xml.pending_lines) = <<>>
    /\ (pc = "done" /\ lastRead = "Eof") =>
           /\ result = Ok(metadata_items)
           /\ result.v = EventsOfLines(FedLines)
           /\ Len(result.v) <= HeaderCount(ConsumedLines)

\* C28 witness: end-of-stream was read while a length > 0 header was waiting
\* with a complete length 0 header behind it, after one record; the read has
\* returned that one record only.
C28_Witness ==
    /\ pc = "done"
    /\ lastRead = "Eof"
    /\ Len(xml.pending_lines) = 2
    /\ HeaderWithData(xml.pending_lines[1])
    /\ xml.pending_lines[2] = LineZero
    /\ result.tag = "Ok"
    /\ Len(result.v) = 1
    /\ Len(FedLines) = 3


\* The offset of the text where the line being read starts: after the last
\* newline fed, 0 when none was.
LastLineStart ==
    LET nl == {i \in 1..fed : text[i] = 10}
    IN  IF nl = {} THEN 0 ELSE CHOOSE i \in nl : \A j \in nl : j <= i

\* C29: a last line without a newline is never queued.  At any point of a
\* one-shot read the remainder of the decoder is the part of the text read
\* behind the last newline; the events collected and the headers queued come
\* from newline-terminated lines only.  So when end-of-stream is read after a
\* last line that has no newline, that line is in the remainder and the
\* events returned hold no record of it.
C29_UnterminatedLineNotQueued ==
    /\ xml.buffer = Slice(text, LastLineStart, fed)
    /\ Len(metadata_items) + HeaderCount(xml.pending_lines) <= HeaderCount(FedLines)
    /\ (pc = "done" /\ lastRead = "Eof") => result = Ok(metadata_items)

\* C29 witness: a source of two length 0 headers, the second without its
\* newline, was read to end-of-stream: the second header is in the remainder
\* and one record was returned.
C29_Witness ==
    /\ pc = "done"
    /\ lastRead = "Eof"
    /\ fed = Len(text)
    /\ text = TextOf(<<LineZero>>) \o LineZero
    /\ xml.buffer = LineZero
    /\ xml.pending_lines = <<>>
    /\ result.tag = "Ok"
    /\ Len(result.v) = 1

(***************************************************************************)
(* Claims about end-of-stream in continuous monitoring of stdin.           *)
(***************************************************************************)
\* start_continuous_reading has read end-of-stream.
StdinAtEof == entry = "start_continuous_reading" /\ lastRead = "Eof"

\* C30: end-of-stream on stdin closes the queue in good order.  When
\* start_continuous_reading reads end-of-stream it has returned Ok(()) and
\* sends nothing more; while the consumer has not been cancelled, every event
\* emitted is received or still queued, in order; and a consumer polling at
\* that point eventually ends its loop on recv returning None having received
\* every event emitted, in order, unless it is cancelled first.
C30_EofClosesQueue ==
    /\ [](StdinAtEof => pc = "done" /\ result = Ok(Unit))
    /\ []((StdinAtEof /\ cons # "cancelled") =>
              /\ received \o chan = emitted
              /\ cons = "ended" => chan = <<>>)
    /\ (StdinAtEof /\ cons = "polling")
           ~> (cons = "cancelled" \/ (cons = "ended" /\ received = emitted))

\* C30 witness: after end-of-stream on stdin the consumer has received the
\* two events emitted and has ended on recv returning None.
C30_Witness ==
    /\ StdinAtEof
    /\ result = Ok(Unit)
    /\ cons = "ended"
    /\ Len(emitted) = 2
    /\ received = emitted

=============================================================================
